---- MODULE Spec2Model ----
(***************************************************************************)
(* simperby: the in-memory key-value store with one generation of          *)
(* checkpoint/revert (kv-storage/src/memory.rs) and the ancestry queries   *)
(* of the raw repository contract (repository/src/raw.rs).                 *)
(***************************************************************************)
EXTENDS Integers, Sequences, FiniteSets

\* ------------------------------------------------------------------ bounds

\* Keys and values offered to the single store of Spec.
NumKeys == 2
NumValues == 2
\* Keys and values offered to the store of SpecHistory, which also remembers
\* the commit before the latest one.
HistKeys == 1
HistValues == 2
\* Keys and values offered to the two stores of SpecOpen.
OpenKeys == 1
OpenValues == 1
\* Commits a repository of SpecAncestry grows to, and parents a commit may have.
MaxCommits == 5
MaxParents == 2
\* Callers that may hold a call on one repository instance at a time in SpecAccess.
MaxTasks == 2
\* Branch names, tag names and commits of a repository of SpecRepo.
RepoBranches == 2
RepoTags == 1
RepoCommits == 2
\* Commits, distinct text lines and reserved states of SpecSemantic.
SemCommits == 2
SemLines == 1
SemStates == 1

\* --------------------------------------------------- values of the program

\* Hash256 keys: n distinct digests.
Hash256(n) == 1..n

\* Byte strings (&[u8], Vec<u8>): n distinct ones, the empty one first.
Bytes(n) == { [i \in 1..m |-> 0] : m \in 0..(n - 1) }

\* Option<T>
None == [tag |-> "None"]
Some(x) == [tag |-> "Some", val |-> x]

\* Result<T, Error>
Ok(x) == [tag |-> "Ok", val |-> x]
Err(e) == [tag |-> "Err", err |-> e]
NotFound == "NotFound"
Unit == <<>>

\* Option::ok_or
ok_or(opt, e) == IF opt.tag = "Some" THEN Ok(opt.val) ELSE Err(e)

\* <[u8]>::to_vec: a fresh vector holding the same bytes, one by one.
to_vec(v) == [i \in 1..Len(v) |-> v[i]]

\* The closures the methods pass, named by their text, applied to x.
closure(f, x) ==
    CASE f = "|_| ()" -> Unit
      [] f = "|v| v.to_vec()" -> to_vec(x)
      [] f = "|_| Ok(false)" -> Ok(FALSE)
      [] f = "|_| Ok(true)" -> Ok(TRUE)
      [] f = "|_| true" -> TRUE

\* Result::map
map(res, f) == IF res.tag = "Ok" THEN Ok(closure(f, res.val)) ELSE res

\* Result::map_or_else(default, f)
map_or_else(res, default, f) ==
    IF res.tag = "Ok" THEN closure(f, res.val) ELSE closure(default, res.err)

\* Snapshot::new(): the HashMap with no entry.
SnapshotNew == [k \in {} |-> <<>>]

\* HashMap::insert: the entry for key is added or overwritten.
HashMapInsert(m, key, value) ==
    [k \in DOMAIN m \cup {key} |-> IF k = key THEN value ELSE m[k]]

\* HashMap::get
HashMapGet(m, key) == IF key \in DOMAIN m THEN Some(m[key]) ELSE None

\* HashMap::remove: the map without key, and the value it held, if any.
HashMapRemove(m, key) ==
    [map |-> [k \in DOMAIN m \ {key} |-> m[k]], out |-> HashMapGet(m, key)]

\* HashMap::clone: entry by entry.
SnapshotClone(m) == [k \in DOMAIN m |-> to_vec(m[k])]

\* ------------------------------------------------------------ MemoryDB

new_checkpoint_seeded ==
    [current_revision |-> SnapshotNew,
     checkpoint |-> HashMapInsert(SnapshotNew, 1, <<>>)]

\* MemoryDB::new
new == [current_revision |-> SnapshotNew, checkpoint |-> SnapshotNew]

\* #[derive(Clone)] on MemoryDB: both fields are cloned.
clone(self) ==
    [current_revision |-> SnapshotClone(self.current_revision),
     checkpoint |-> SnapshotClone(self.checkpoint)]

\* The stores that exist are the cells of a heap: cell id -> MemoryDB. A new
\* store takes the first id no live store holds.
Fresh(h) == CHOOSE id \in 1..(Cardinality(DOMAIN h) + 1) : id \notin DOMAIN h

Alloc(h, id, s) == [c \in DOMAIN h \cup {id} |-> IF c = id THEN s ELSE h[c]]

open_alias(h, self) == [heap |-> h, ret |-> self]

open_current_only(h, self) ==
    [heap |-> Alloc(h, Fresh(h), [current_revision |-> SnapshotClone(h[self].current_revision),
                                  checkpoint |-> SnapshotNew]),
     ret |-> Fresh(h)]

\* MemoryDB::open on the store in cell self: a new store (ret) holding a clone.
open(h, self) ==
    LET id == Fresh(h)
    IN  [heap |-> Alloc(h, id, clone(h[self])), ret |-> id]

\* Each method below gives the store after the call (db) and what the call
\* returns (ret).

commit_checkpoint_keep_old(self) ==
    [db |-> [self EXCEPT !.checkpoint =
                 [k \in DOMAIN self.checkpoint \cup DOMAIN self.current_revision |->
                     IF k \in DOMAIN self.current_revision
                     THEN self.current_revision[k] ELSE self.checkpoint[k]]],
     ret |-> Ok(Unit)]

commit_checkpoint_once(self) ==
    [db |-> [self EXCEPT !.checkpoint =
                 IF self.checkpoint = SnapshotNew
                 THEN SnapshotClone(self.current_revision) ELSE self.checkpoint],
     ret |-> Ok(Unit)]

commit_checkpoint(self) ==
    [db |-> [self EXCEPT !.checkpoint = SnapshotClone(self.current_revision)],
     ret |-> Ok(Unit)]

revert_merge(self) ==
    [db |-> [self EXCEPT !.current_revision =
                 [k \in DOMAIN self.checkpoint \cup DOMAIN self.current_revision |->
                     IF k \in DOMAIN self.checkpoint
                     THEN self.checkpoint[k] ELSE self.current_revision[k]]],
     ret |-> Ok(Unit)]

revert_swap(self) ==
    [db |-> [current_revision |-> self.checkpoint, checkpoint |-> self.current_revision],
     ret |-> Ok(Unit)]

revert_to_latest_checkpoint(self) ==
    [db |-> [self EXCEPT !.current_revision = SnapshotClone(self.checkpoint)],
     ret |-> Ok(Unit)]

insert_keep_existing(self, key, value) ==
    [db |-> [self EXCEPT !.current_revision =
                 IF key \in DOMAIN @ THEN @ ELSE HashMapInsert(@, key, to_vec(value))],
     ret |-> Ok(Unit)]

insert_or_update(self, key, value) ==
    [db |-> [self EXCEPT !.current_revision = HashMapInsert(@, key, to_vec(value))],
     ret |-> Ok(Unit)]

remove_silent(self, key) ==
    LET r == HashMapRemove(self.current_revision, key)
    IN  [db |-> [self EXCEPT !.current_revision = r.map], ret |-> Ok(Unit)]

remove_both(self, key) ==
    LET r == HashMapRemove(self.current_revision, key)
    IN  [db |-> [self EXCEPT !.current_revision = r.map,
                             !.checkpoint = HashMapRemove(@, key).map],
         ret |-> map(ok_or(r.out, NotFound), "|_| ()")]

remove(self, key) ==
    LET r == HashMapRemove(self.current_revision, key)
    IN  [db |-> [self EXCEPT !.current_revision = r.map],
         ret |-> map(ok_or(r.out, NotFound), "|_| ()")]

get(self, key) ==
    [db |-> self,
     ret |-> map(ok_or(HashMapGet(self.current_revision, key), NotFound), "|v| v.to_vec()")]

contain_propagate(self, key) ==
    [db |-> self,
     ret |-> map(ok_or(HashMapGet(self.current_revision, key), NotFound), "|_| true")]

contain_swapped(self, key) ==
    [db |-> self,
     ret |-> map_or_else(ok_or(HashMapGet(self.current_revision, key), NotFound),
                         "|_| Ok(true)", "|_| Ok(false)")]

contain(self, key) ==
    [db |-> self,
     ret |-> map_or_else(ok_or(HashMapGet(self.current_revision, key), NotFound),
                         "|_| Ok(false)", "|_| Ok(true)")]

\* ------------------------------------------------------- RawRepository

\* Error::InvalidRepository
InvalidRepository == "InvalidRepository"

\* CommitHash: n distinct hashes, in the order the commits were made.
CommitHash(n) == 1..n

\* Error::Git2Error: what the backend reports for an unknown or clashing name
\* or commit.
Git2Error == "Git2Error"

\* Branch and Tag names: n distinct ones; branch 1 is the one init checks out.
Branch(n) == 1..n
Tag(n) == 1..n

\* HEAD: attached to a branch, or detached at a commit.
Attached(b) == [mode |-> "attached", branch |-> b]
Detached(c) == [mode |-> "detached", commit |-> c]

\* A repository: its commit graph (commit -> the set of its parents), the
\* commits garbage collection has removed, its branches and tags (name ->
\* commit), HEAD, and per commit made here its message (lines) and the
\* reserved state of its tree. init leaves the genesis commit, which has no
\* parent, with the first branch on it and checked out.
genesis ==
    [parents |-> [c \in CommitHash(1) |-> {}],
     pruned |-> {},
     branches |-> [b \in Branch(1) |-> 1],
     tags |-> [g \in {} |-> 1],
     head |-> Attached(1),
     message |-> [c \in CommitHash(1) |-> <<1>>],
     reserved |-> [c \in CommitHash(1) |-> 0]]

\* The graph with one more commit, whose parents are ps.
add_commit(repo, ps) ==
    LET id == Cardinality(DOMAIN repo.parents) + 1
    IN  [repo EXCEPT !.parents =
            [c \in DOMAIN repo.parents \cup {id} |->
                IF c = id THEN ps ELSE repo.parents[c]]]

\* The walk of list_ancestors from commit c with acc gathered so far: it stops
\* at max entries or at a commit with no parent, and fails on a commit with
\* several parents, whether it is the one whose parent link is followed or the
\* one the link leads to.
RECURSIVE WalkParents(_, _, _, _)
WalkParents(repo, c, max, acc) ==
    IF max.tag = "Some" /\ Len(acc) >= max.val THEN Ok(acc)
    ELSE IF repo.parents[c] = {} THEN Ok(acc)
    ELSE IF Cardinality(repo.parents[c]) > 1 THEN Err(InvalidRepository)
    ELSE LET p == CHOOSE x \in repo.parents[c] : TRUE
         IN  IF Cardinality(repo.parents[p]) > 1 THEN Err(InvalidRepository)
             ELSE WalkParents(repo, p, max, Append(acc, p))

list_ancestors_from_self(repo, commit_hash, max) ==
    WalkParents(repo, commit_hash, max, <<commit_hash>>)

\* RawRepository::list_ancestors
list_ancestors(repo, commit_hash, max) ==
    WalkParents(repo, commit_hash, max, <<>>)

\* The commits that have c among their parents.
children(repo, c) == {x \in DOMAIN repo.parents : c \in repo.parents[x]}

\* The elements of a set of hashes as a Vec, lowest hash first.
RECURSIVE SortedVec(_)
SortedVec(S) ==
    IF S = {} THEN <<>>
    ELSE LET lo == CHOOSE x \in S : \A y \in S : x <= y
         IN  <<lo>> \o SortedVec(S \ {lo})

\* The walk of list_descendants from commit c with acc gathered so far: it
\* stops at max entries or at a commit with no child, and fails on a commit
\* with several children, whether it is the one whose child link is followed
\* or the one the link leads to.
RECURSIVE WalkChildren(_, _, _, _)
WalkChildren(repo, c, max, acc) ==
    IF max.tag = "Some" /\ Len(acc) >= max.val THEN Ok(acc)
    ELSE IF children(repo, c) = {} THEN Ok(acc)
    ELSE IF Cardinality(children(repo, c)) > 1 THEN Err(InvalidRepository)
    ELSE LET d == CHOOSE x \in children(repo, c) : TRUE
         IN  IF Cardinality(children(repo, d)) > 1 THEN Err(InvalidRepository)
             ELSE WalkChildren(repo, d, max, Append(acc, d))

\* The walk taking the lowest child where the history diverges.
RECURSIVE WalkFirstChild(_, _, _, _)
WalkFirstChild(repo, c, max, acc) ==
    IF max.tag = "Some" /\ Len(acc) >= max.val THEN Ok(acc)
    ELSE IF children(repo, c) = {} THEN Ok(acc)
    ELSE LET d == SortedVec(children(repo, c))[1]
         IN  WalkFirstChild(repo, d, max, Append(acc, d))

list_descendants_first_child(repo, commit_hash, max) ==
    WalkFirstChild(repo, commit_hash, max, <<>>)

\* RawRepository::list_descendants
list_descendants(repo, commit_hash, max) ==
    WalkChildren(repo, commit_hash, max, <<>>)

\* RawRepository::list_children
list_children(repo, commit_hash) == Ok(SortedVec(children(repo, commit_hash)))

\* The commits the repository knows.
known(repo) == DOMAIN repo.parents \ repo.pruned

\* The commit HEAD resolves to.
head_commit(repo) ==
    IF repo.head.mode = "attached" THEN repo.branches[repo.head.branch]
    ELSE repo.head.commit

\* Each method below gives the repository after the call (repo) and what the
\* call returns (ret); a failing call leaves the repository as it was.
Fails(repo) == [repo |-> repo, ret |-> Err(Git2Error)]

\* name -> commit with the entry for name set to c.
Point(refs, name, c) ==
    [n \in DOMAIN refs \cup {name} |-> IF n = name THEN c ELSE refs[n]]

\* name -> commit without the entry for name.
Unpoint(refs, name) == [n \in DOMAIN refs \ {name} |-> refs[n]]

create_branch_overwrite(repo, branch_name, commit_hash) ==
    IF commit_hash \notin known(repo) THEN Fails(repo)
    ELSE [repo |-> [repo EXCEPT !.branches = Point(@, branch_name, commit_hash)],
          ret |-> Ok(Unit)]

\* RawRepository::create_branch
create_branch(repo, branch_name, commit_hash) ==
    IF branch_name \in DOMAIN repo.branches \/ commit_hash \notin known(repo)
    THEN Fails(repo)
    ELSE [repo |-> [repo EXCEPT !.branches = Point(@, branch_name, commit_hash)],
          ret |-> Ok(Unit)]

\* RawRepository::locate_branch
locate_branch(repo, branch) ==
    [repo |-> repo,
     ret |-> IF branch \in DOMAIN repo.branches THEN Ok(repo.branches[branch])
             ELSE Err(Git2Error)]

\* RawRepository::get_branches
get_branches(repo, commit_hash) ==
    [repo |-> repo,
     ret |-> IF commit_hash \in known(repo)
             THEN Ok(SortedVec({b \in DOMAIN repo.branches :
                                   repo.branches[b] = commit_hash}))
             ELSE Err(Git2Error)]

\* RawRepository::move_branch
move_branch(repo, branch, commit_hash) ==
    IF branch \notin DOMAIN repo.branches \/ commit_hash \notin known(repo)
    THEN Fails(repo)
    ELSE [repo |-> [repo EXCEPT !.branches = Point(@, branch, commit_hash)],
          ret |-> Ok(Unit)]

\* RawRepository::delete_branch: the backend refuses to delete the branch HEAD
\* is attached to.
delete_branch(repo, branch) ==
    IF branch \notin DOMAIN repo.branches \/ repo.head = Attached(branch)
    THEN Fails(repo)
    ELSE [repo |-> [repo EXCEPT !.branches = Unpoint(@, branch)], ret |-> Ok(Unit)]

\* RawRepository::create_tag
create_tag(repo, tag, commit_hash) ==
    IF tag \in DOMAIN repo.tags \/ commit_hash \notin known(repo)
    THEN Fails(repo)
    ELSE [repo |-> [repo EXCEPT !.tags = Point(@, tag, commit_hash)], ret |-> Ok(Unit)]

\* RawRepository::remove_tag
remove_tag(repo, tag) ==
    IF tag \notin DOMAIN repo.tags THEN Fails(repo)
    ELSE [repo |-> [repo EXCEPT !.tags = Unpoint(@, tag)], ret |-> Ok(Unit)]

checkout_keep_detached(repo, branch) ==
    IF branch \notin DOMAIN repo.branches THEN Fails(repo)
    ELSE [repo |-> [repo EXCEPT !.head = IF @.mode = "detached"
                                         THEN Detached(repo.branches[branch])
                                         ELSE Attached(branch)],
          ret |-> Ok(Unit)]

\* RawRepository::checkout
checkout(repo, branch) ==
    IF branch \notin DOMAIN repo.branches THEN Fails(repo)
    ELSE [repo |-> [repo EXCEPT !.head = Attached(branch)], ret |-> Ok(Unit)]

\* RawRepository::checkout_detach
checkout_detach(repo, commit_hash) ==
    IF commit_hash \notin known(repo) THEN Fails(repo)
    ELSE [repo |-> [repo EXCEPT !.head = Detached(commit_hash)], ret |-> Ok(Unit)]

\* RawRepository::get_head
get_head(repo) == [repo |-> repo, ret |-> Ok(head_commit(repo))]

commit_moves_all_branches(repo, message, reserved, on_detached) ==
    LET id == Cardinality(DOMAIN repo.parents) + 1
        at == head_commit(repo)
        grown == [add_commit(repo, {at}) EXCEPT
                     !.message = Point(@, id, message),
                     !.reserved = Point(@, id, reserved)]
    IN  IF repo.head.mode = "detached" /\ on_detached = "fails" THEN Fails(repo)
        ELSE [repo |-> [grown EXCEPT
                           !.branches = [b \in DOMAIN @ |-> IF @[b] = at THEN id ELSE @[b]],
                           !.head = IF @.mode = "attached" THEN @ ELSE Detached(id)],
              ret |-> Ok(id)]

\* A commit made on top of the commit HEAD resolves to, with the given message
\* and reserved state. With HEAD attached its branch moves to the new commit.
\* With HEAD detached the contract leaves the outcome open (on_detached): the
\* call fails, or the commit is made and HEAD moves to it, detached.
commit_on_head(repo, message, reserved, on_detached) ==
    LET id == Cardinality(DOMAIN repo.parents) + 1
        grown == [add_commit(repo, {head_commit(repo)}) EXCEPT
                     !.message = Point(@, id, message),
                     !.reserved = Point(@, id, reserved)]
    IN  IF repo.head.mode = "attached"
        THEN [repo |-> [grown EXCEPT !.branches[repo.head.branch] = id], ret |-> Ok(id)]
        ELSE IF on_detached = "fails" THEN Fails(repo)
        ELSE [repo |-> [grown EXCEPT !.head = Detached(id)], ret |-> Ok(id)]

\* RawRepository::create_commit: the diff, when given, touches the working
\* tree outside the reserved state.
create_commit(repo, commit_message, diff, on_detached) ==
    commit_on_head(repo, commit_message, repo.reserved[head_commit(repo)], on_detached)

\* A SemanticCommit value.
SemanticCommit(title, body, reserved_state) ==
    [title |-> title, body |-> body, reserved_state |-> reserved_state]

\* The commit message of a title and a body: the title line, and for a
\* non-empty body a blank line (0) and the lines of the body.
to_message(title, body) ==
    IF body = <<>> THEN <<title>> ELSE <<title, 0>> \o body

parse_message_last_blank(message) ==
    LET blanks == {i \in 1..Len(message) : message[i] = 0}
        cut == CHOOSE i \in blanks : \A j \in blanks : j <= i
    IN  IF blanks = {} THEN [title |-> message[1], body |-> <<>>]
        ELSE [title |-> message[1], body |-> SubSeq(message, cut + 1, Len(message))]

\* The title and the body of a commit message: what stands before and after
\* the first blank line.
parse_message(message) ==
    IF Len(message) < 2 THEN [title |-> message[1], body |-> <<>>]
    ELSE [title |-> message[1], body |-> SubSeq(message, 3, Len(message))]

\* RawRepository::create_semantic_commit: the commit carries the title and the
\* body as its message and, when a reserved state is given, that state in its
\* tree.
create_semantic_commit(repo, commit, on_detached) ==
    commit_on_head(repo, to_message(commit.title, commit.body),
                   IF commit.reserved_state.tag = "Some" THEN commit.reserved_state.val
                   ELSE repo.reserved[head_commit(repo)],
                   on_detached)

\* Whether the tree of a commit differs from its parent's in the reserved state.
changes_reserved_state(repo, c) ==
    \A q \in repo.parents[c] : repo.reserved[q] # repo.reserved[c]

\* RawRepository::read_semantic_commit: reserved_state is given only when the
\* commit changed the reserved state.
read_semantic_commit(repo, commit_hash) ==
    IF commit_hash \notin known(repo) THEN Fails(repo)
    ELSE LET m == parse_message(repo.message[commit_hash])
         IN  [repo |-> repo,
              ret |-> Ok(SemanticCommit(m.title, m.body,
                         IF changes_reserved_state(repo, commit_hash)
                         THEN Some(repo.reserved[commit_hash]) ELSE None))]

\* The commits that can be reached from a branch, a tag or HEAD.
RECURSIVE Closure(_, _)
Closure(repo, S) ==
    LET more == S \cup UNION {repo.parents[c] : c \in S}
    IN  IF more = S THEN S ELSE Closure(repo, more)

Reachable(repo) ==
    Closure(repo, {repo.branches[b] : b \in DOMAIN repo.branches}
                  \cup {repo.tags[g] : g \in DOMAIN repo.tags}
                  \cup {head_commit(repo)})

\* RawRepository::run_garbage_collection
run_garbage_collection(repo) ==
    [repo |-> [repo EXCEPT !.pruned = @ \cup (known(repo) \ Reachable(repo))],
     ret |-> Ok(Unit)]

\* The methods of the trait that take &self.
SharedSelf ==
    {"list_branches", "create_branch", "locate_branch", "get_branches",
     "list_tags", "locate_tag", "get_tag", "read_semantic_commit", "get_head",
     "get_initial_commit", "show_commit", "list_ancestors", "list_descendants",
     "list_children", "find_merge_base", "list_remotes",
     "list_remote_tracking_branches"}

\* The methods of the trait that take &mut self.
MutSelf ==
    {"move_branch", "delete_branch", "create_tag", "remove_tag", "create_commit",
     "create_semantic_commit", "run_garbage_collection", "checkout_clean",
     "checkout", "checkout_detach", "add_remote", "remove_remote", "fetch_all"}

Idle == "idle"

\* The borrow a call's future holds on the instance until it completes: a
\* &mut self call can start only when no call is in flight, a &self call only
\* when no &mut self call is.
may_borrow(held, op) ==
    IF op \in MutSelf
    THEN \A t \in DOMAIN held : held[t] = Idle
    ELSE \A t \in DOMAIN held : held[t] \notin MutSelf

\* ------------------------------------------------------------------ state

VARIABLES
    heap,     \* the stores that exist: cell id -> MemoryDB
    handle,   \* the caller's bindings: "db" (made by new) and "opened" (returned by open)
    call,     \* the last call: the binding it was made on, its name, arguments and result
    commits,  \* per binding, current_revision as it was at its latest commit_checkpoint calls
    repo,     \* the repository: its commit graph, branches, tags and HEAD
    inflight  \* per caller, the repository method whose future it holds, or Idle

\* The state, the last call last and behind its name and outcome, which tell
\* two calls apart before their arguments and results are compared.
vars == <<heap, handle, commits, repo, inflight, call.inst, call.op, call.ret.tag, call>>

\* What a specification offers the callers: the keys and values they pass and
\* how many commit_checkpoint calls are remembered.
StoreScope == [keys |-> Hash256(NumKeys), values |-> Bytes(NumValues), depth |-> 1]
HistoryScope == [keys |-> Hash256(HistKeys), values |-> Bytes(HistValues), depth |-> 2]
OpenScope == [keys |-> Hash256(OpenKeys), values |-> Bytes(OpenValues), depth |-> 1]

Stores == DOMAIN handle

Store(i) == heap[handle[i]]

\* The store binding i names in the next state.
StoreAfter(i) == heap'[handle'[i]]

\* A &mut self call writes the store binding i names.
SetStore(i, s) == heap' = [heap EXCEPT ![handle[i]] = s] /\ UNCHANGED handle

\* changed: whether the call left the store different from what it was.
Called(i, op, args, ret, changed) ==
    call' = [inst |-> i, op |-> op, args |-> args, ret |-> ret, changed |-> changed]

\* The names, commits and commit contents the calls of a specification draw
\* their arguments from.
Bodies(n) == {<<>>} \cup {<<l>> : l \in 1..n} \cup {<<l, 0, l>> : l \in 1..n}

RepoScope ==
    [branches |-> Branch(RepoBranches), tags |-> Tag(RepoTags),
     commits |-> RepoCommits, messages |-> {<<1>>},
     semantic |-> {SemanticCommit(1, <<>>, None)}]

SemanticScope ==
    [branches |-> Branch(1), tags |-> {},
     commits |-> SemCommits, messages |-> {<<1>>},
     semantic |-> {SemanticCommit(title, body, rs) :
                      title \in 1..SemLines, body \in Bodies(SemLines),
                      rs \in {None} \cup {Some(s) : s \in 0..SemStates}}]

\* What can happen to a commit made with HEAD detached.
OnDetached == {"fails", "dangling"}

\* The last n entries of sequence s.
LastN(s, n) == IF Len(s) <= n THEN s ELSE SubSeq(s, Len(s) - n + 1, Len(s))

Init ==
    /\ heap = [c \in {1} |-> new]
    /\ handle = [i \in {"db"} |-> 1]
    /\ call = [inst |-> "db", op |-> "new", args |-> <<>>, ret |-> Ok(Unit),
               changed |-> FALSE]
    /\ commits = [i \in {"db", "opened"} |-> <<>>]
    /\ repo = genesis
    /\ inflight = [t \in 1..MaxTasks |-> Idle]

\* ---------------------------------------------------------------- actions
\* A call of a method of the store bound to i, by a caller of scope u.

CommitCheckpoint(u) ==
    \E i \in Stores :
        LET r == commit_checkpoint(Store(i))
        IN  /\ SetStore(i, r.db)
            /\ Called(i, "commit_checkpoint", <<>>, r.ret, r.db # Store(i))
            /\ commits' = [commits EXCEPT
                              ![i] = LastN(Append(@, Store(i).current_revision), u.depth)]
            /\ UNCHANGED <<repo, inflight>>

RevertToLatestCheckpoint(u) ==
    \E i \in Stores :
        LET r == revert_to_latest_checkpoint(Store(i))
        IN  /\ SetStore(i, r.db)
            /\ Called(i, "revert_to_latest_checkpoint", <<>>, r.ret, r.db # Store(i))
            /\ UNCHANGED <<commits, repo, inflight>>

InsertOrUpdate(u) ==
    \E i \in Stores, key \in u.keys, value \in u.values :
        LET r == insert_or_update(Store(i), key, value)
        IN  /\ SetStore(i, r.db)
            /\ Called(i, "insert_or_update", <<key, value>>, r.ret, r.db # Store(i))
            /\ UNCHANGED <<commits, repo, inflight>>

Remove(u) ==
    \E i \in Stores, key \in u.keys :
        LET r == remove(Store(i), key)
        IN  /\ SetStore(i, r.db)
            /\ Called(i, "remove", <<key>>, r.ret, r.db # Store(i))
            /\ UNCHANGED <<commits, repo, inflight>>

Get(u) ==
    \E i \in Stores, key \in u.keys :
        LET r == get(Store(i), key)
        IN  /\ SetStore(i, r.db)
            /\ Called(i, "get", <<key>>, r.ret, r.db # Store(i))
            /\ UNCHANGED <<commits, repo, inflight>>

Contain(u) ==
    \E i \in Stores, key \in u.keys :
        LET r == contain(Store(i), key)
        IN  /\ SetStore(i, r.db)
            /\ Called(i, "contain", <<key>>, r.ret, r.db # Store(i))
            /\ UNCHANGED <<commits, repo, inflight>>

\* let opened = db.open().await: the binding takes the store open returns, and
\* the store of an earlier open, owned by that binding alone, is dropped.
Open(u) ==
    LET kept == [c \in {handle["db"]} |-> heap[c]]
        r == open(kept, handle["db"])
    IN  /\ heap' = [c \in {handle["db"], r.ret} |-> r.heap[c]]
        /\ handle' = [i \in {"db", "opened"} |-> IF i = "db" THEN handle["db"] ELSE r.ret]
        /\ Called("db", "open", <<>>, Ok(Unit), FALSE)
        /\ commits' = [commits EXCEPT !["opened"] = commits["db"]]
        /\ UNCHANGED <<repo, inflight>>

\* One store, the one made by new.
Next ==
    \/ CommitCheckpoint(StoreScope)
    \/ RevertToLatestCheckpoint(StoreScope)
    \/ InsertOrUpdate(StoreScope)
    \/ Remove(StoreScope)
    \/ Get(StoreScope)
    \/ Contain(StoreScope)

Spec == Init /\ [][Next]_vars

\* One store, remembering its last two commit_checkpoint calls.
NextHistory ==
    \/ CommitCheckpoint(HistoryScope)
    \/ RevertToLatestCheckpoint(HistoryScope)
    \/ InsertOrUpdate(HistoryScope)
    \/ Remove(HistoryScope)
    \/ Get(HistoryScope)
    \/ Contain(HistoryScope)

SpecHistory == Init /\ [][NextHistory]_vars

\* The store made by new and the one open returns.
NextOpen ==
    \/ CommitCheckpoint(OpenScope)
    \/ RevertToLatestCheckpoint(OpenScope)
    \/ InsertOrUpdate(OpenScope)
    \/ Remove(OpenScope)
    \/ Get(OpenScope)
    \/ Contain(OpenScope)
    \/ Open(OpenScope)

SpecOpen == Init /\ [][NextOpen]_vars

\* ------------------------------------------------ actions, the repository

\* The graph gains a commit: one made on top of a commit here (one parent), or
\* a merge commit that came with a fetch (several parents).
GraphGrows ==
    /\ Cardinality(DOMAIN repo.parents) < MaxCommits
    /\ \E ps \in SUBSET DOMAIN repo.parents :
           /\ 1 <= Cardinality(ps) /\ Cardinality(ps) <= MaxParents
           /\ repo' = add_commit(repo, ps)
           /\ Called("repo", "commit", <<ps>>,
                     Ok(Cardinality(DOMAIN repo.parents) + 1), TRUE)
    /\ UNCHANGED <<heap, handle, commits, inflight>>

\* max: None, or any count up to one more than the ancestors a commit can have.
ListAncestors ==
    \E commit_hash \in DOMAIN repo.parents,
       max \in {None} \cup {Some(m) : m \in 0..MaxCommits} :
        /\ Called("repo", "list_ancestors", <<commit_hash, max>>,
                  list_ancestors(repo, commit_hash, max), FALSE)
        /\ UNCHANGED <<heap, handle, commits, repo, inflight>>

NextAncestry == GraphGrows \/ ListAncestors

SpecAncestry == Init /\ [][NextAncestry]_vars

ListDescendants ==
    \E commit_hash \in DOMAIN repo.parents,
       max \in {None} \cup {Some(m) : m \in 0..MaxCommits} :
        /\ Called("repo", "list_descendants", <<commit_hash, max>>,
                  list_descendants(repo, commit_hash, max), FALSE)
        /\ UNCHANGED <<heap, handle, commits, repo, inflight>>

ListChildren ==
    \E commit_hash \in DOMAIN repo.parents :
        /\ Called("repo", "list_children", <<commit_hash>>,
                  list_children(repo, commit_hash), FALSE)
        /\ UNCHANGED <<heap, handle, commits, repo, inflight>>

NextDescendants == GraphGrows \/ ListDescendants \/ ListChildren

SpecDescendants == Init /\ [][NextDescendants]_vars

\* The calls on the branches, the tags and HEAD of the repository. Commits are
\* named by any hash of the scope, known to the repository or not.
CreateBranch(u) ==
    \E b \in u.branches, c \in CommitHash(u.commits) :
        LET r == create_branch(repo, b, c)
        IN  /\ repo' = r.repo
            /\ Called("repo", "create_branch", <<b, c>>, r.ret, r.repo # repo)
            /\ UNCHANGED <<heap, handle, commits, inflight>>

MoveBranch(u) ==
    \E b \in u.branches, c \in CommitHash(u.commits) :
        LET r == move_branch(repo, b, c)
        IN  /\ repo' = r.repo
            /\ Called("repo", "move_branch", <<b, c>>, r.ret, r.repo # repo)
            /\ UNCHANGED <<heap, handle, commits, inflight>>

DeleteBranch(u) ==
    \E b \in u.branches :
        LET r == delete_branch(repo, b)
        IN  /\ repo' = r.repo
            /\ Called("repo", "delete_branch", <<b>>, r.ret, r.repo # repo)
            /\ UNCHANGED <<heap, handle, commits, inflight>>

CreateTag(u) ==
    \E g \in u.tags, c \in CommitHash(u.commits) :
        LET r == create_tag(repo, g, c)
        IN  /\ repo' = r.repo
            /\ Called("repo", "create_tag", <<g, c>>, r.ret, r.repo # repo)
            /\ UNCHANGED <<heap, handle, commits, inflight>>

RemoveTag(u) ==
    \E g \in u.tags :
        LET r == remove_tag(repo, g)
        IN  /\ repo' = r.repo
            /\ Called("repo", "remove_tag", <<g>>, r.ret, r.repo # repo)
            /\ UNCHANGED <<heap, handle, commits, inflight>>

\* Commits are made while the scope has a hash left for them.
CreateCommit(u) ==
    /\ Cardinality(DOMAIN repo.parents) < u.commits
    /\ \E m \in u.messages, diff \in {None, Some(1)}, d \in OnDetached :
           LET r == create_commit(repo, m, diff, d)
           IN  /\ repo' = r.repo
               /\ Called("repo", "create_commit", <<m, diff>>, r.ret, r.repo # repo)
               /\ UNCHANGED <<heap, handle, commits, inflight>>

CreateSemanticCommit(u) ==
    /\ Cardinality(DOMAIN repo.parents) < u.commits
    /\ \E s \in u.semantic, d \in OnDetached :
           LET r == create_semantic_commit(repo, s, d)
           IN  /\ repo' = r.repo
               /\ Called("repo", "create_semantic_commit", <<s>>, r.ret, r.repo # repo)
               /\ UNCHANGED <<heap, handle, commits, inflight>>

ReadSemanticCommit(u) ==
    \E c \in CommitHash(u.commits) :
        LET r == read_semantic_commit(repo, c)
        IN  /\ repo' = r.repo
            /\ Called("repo", "read_semantic_commit", <<c>>, r.ret, r.repo # repo)
            /\ UNCHANGED <<heap, handle, commits, inflight>>

RunGarbageCollection(u) ==
    LET r == run_garbage_collection(repo)
    IN  /\ repo' = r.repo
        /\ Called("repo", "run_garbage_collection", <<>>, r.ret, r.repo # repo)
        /\ UNCHANGED <<heap, handle, commits, inflight>>

Checkout(u) ==
    \E b \in u.branches :
        LET r == checkout(repo, b)
        IN  /\ repo' = r.repo
            /\ Called("repo", "checkout", <<b>>, r.ret, r.repo # repo)
            /\ UNCHANGED <<heap, handle, commits, inflight>>

CheckoutDetach(u) ==
    \E c \in CommitHash(u.commits) :
        LET r == checkout_detach(repo, c)
        IN  /\ repo' = r.repo
            /\ Called("repo", "checkout_detach", <<c>>, r.ret, r.repo # repo)
            /\ UNCHANGED <<heap, handle, commits, inflight>>

GetHead(u) ==
    LET r == get_head(repo)
    IN  /\ repo' = r.repo
        /\ Called("repo", "get_head", <<>>, r.ret, r.repo # repo)
        /\ UNCHANGED <<heap, handle, commits, inflight>>

NextRepo ==
    \/ CreateBranch(RepoScope)
    \/ MoveBranch(RepoScope)
    \/ DeleteBranch(RepoScope)
    \/ CreateTag(RepoScope)
    \/ RemoveTag(RepoScope)
    \/ CreateCommit(RepoScope)
    \/ CreateSemanticCommit(RepoScope)
    \/ RunGarbageCollection(RepoScope)
    \/ Checkout(RepoScope)
    \/ CheckoutDetach(RepoScope)
    \/ GetHead(RepoScope)

SpecRepo == Init /\ [][NextRepo]_vars

NextSemantic ==
    \/ CreateSemanticCommit(SemanticScope)
    \/ ReadSemanticCommit(SemanticScope)
    \/ CheckoutDetach(SemanticScope)
    \/ Checkout(SemanticScope)

SpecSemantic == Init /\ [][NextSemantic]_vars

\* Caller t calls a method of the instance it shares with the other callers:
\* the future borrows the instance as the method's receiver says.
BeginCall ==
    \E t \in DOMAIN inflight, op \in SharedSelf \cup MutSelf :
        /\ inflight[t] = Idle
        /\ may_borrow(inflight, op)
        /\ inflight' = [inflight EXCEPT ![t] = op]
        /\ UNCHANGED <<heap, handle, call, commits, repo>>

\* The call of caller t completes and its borrow ends.
EndCall ==
    \E t \in DOMAIN inflight :
        /\ inflight[t] # Idle
        /\ inflight' = [inflight EXCEPT ![t] = Idle]
        /\ UNCHANGED <<heap, handle, call, commits, repo>>

NextAccess == BeginCall \/ EndCall

SpecAccess == Init /\ [][NextAccess]_vars

\* ------------------------------------------------------- claims, the store

IsCall(i, op) == call.inst = i /\ call.op = op

\* The step is a call of op on binding i.
StepIs(i, op) == call'.inst = i /\ call'.op = op

\* C1 (checkpoint isolation): right after revert_to_latest_checkpoint on a store
\* that has had a commit_checkpoint, whatever was inserted, overwritten or
\* removed since, current_revision is exactly (same keys, same value per key)
\* what it was at the moment of that commit_checkpoint, and the call returned Ok.
CheckpointIsolation ==
    \A i \in Stores :
        (IsCall(i, "revert_to_latest_checkpoint") /\ commits[i] # <<>>) =>
            /\ call.ret = Ok(Unit)
            /\ DOMAIN Store(i).current_revision = DOMAIN commits[i][Len(commits[i])]
            /\ \A k \in DOMAIN Store(i).current_revision :
                   Store(i).current_revision[k] = commits[i][Len(commits[i])][k]

\* A revert that discarded mutations and brought back a non-empty committed state.
CheckpointIsolationWitness ==
    /\ IsCall("db", "revert_to_latest_checkpoint")
    /\ call.changed
    /\ commits["db"] # <<>>
    /\ Store("db").current_revision # SnapshotNew

\* C2 (single-generation history): once commit_checkpoint has been called twice,
\* the checkpoint kept is the state at the second call, every later revert
\* restores that state, and a revert gives the state of the first call only
\* when the two are equal.
SingleGenerationHistory ==
    Len(commits["db"]) = 2 =>
        LET first == commits["db"][1]
            second == commits["db"][2]
        IN  /\ Store("db").checkpoint = second
            /\ IsCall("db", "revert_to_latest_checkpoint") =>
                   /\ Store("db").current_revision = second
                   /\ (Store("db").current_revision = first => first = second)

\* A revert after two commits of different states, discarding later mutations.
SingleGenerationHistoryWitness ==
    /\ Len(commits["db"]) = 2
    /\ commits["db"][1] # commits["db"][2]
    /\ commits["db"][1] # SnapshotNew
    /\ IsCall("db", "revert_to_latest_checkpoint")
    /\ call.changed

\* The step may change what get(k) and contain(k) return on binding i.
Disturbs(i, k) ==
    \/ StepIs(i, "remove") /\ call'.args = <<k>>
    \/ StepIs(i, "insert_or_update") /\ call'.args[1] = k
    \/ StepIs(i, "revert_to_latest_checkpoint")

\* C3 (lookup consistency): a successful insert_or_update(k, v) makes get(k)
\* return v and contain(k) return true, and both keep returning that across
\* every step that is not a remove(k), an insert_or_update(k, _) or a revert:
\* calls on other keys, get, contain and commit_checkpoint.
LookupConsistency ==
    [][\A i \in Stores, k \in StoreScope.keys, v \in StoreScope.values :
          /\ (StepIs(i, "insert_or_update") /\ call'.args = <<k, v>>) =>
                 /\ call'.ret = Ok(Unit)
                 /\ get(StoreAfter(i), k).ret = Ok(v)
                 /\ contain(StoreAfter(i), k).ret = Ok(TRUE)
          /\ (get(Store(i), k).ret = Ok(v) /\ ~Disturbs(i, k)) =>
                 /\ get(StoreAfter(i), k).ret = Ok(v)
                 /\ contain(StoreAfter(i), k).ret = Ok(TRUE)]_vars

\* A get that returns an overwritten value after a commit_checkpoint of another.
LookupConsistencyWitness ==
    /\ IsCall("db", "get")
    /\ call.ret = Ok(<<0>>)
    /\ commits["db"] # <<>>
    /\ call.args[1] \in DOMAIN Store("db").checkpoint
    /\ Store("db").checkpoint[call.args[1]] = <<>>

\* C4 (the checkpoint's frame): checkpoint changes only in commit_checkpoint,
\* where it becomes an exact copy of current_revision; every other call
\* (insert_or_update, remove whether it succeeds or fails, get, contain,
\* revert_to_latest_checkpoint) leaves it as it was.
CheckpointFrame ==
    [][\A i \in Stores :
          IF StepIs(i, "commit_checkpoint")
          THEN StoreAfter(i).checkpoint = Store(i).current_revision
          ELSE StoreAfter(i).checkpoint = Store(i).checkpoint]_vars

\* A key inserted after a commit_checkpoint: in current_revision, not in checkpoint.
CheckpointFrameWitness ==
    /\ IsCall("db", "insert_or_update")
    /\ commits["db"] # <<>>
    /\ Store("db").checkpoint # SnapshotNew
    /\ call.args[1] \in DOMAIN Store("db").current_revision
    /\ call.args[1] \notin DOMAIN Store("db").checkpoint

\* C5 (remove): remove(key) of a key absent from current_revision returns
\* NotFound and leaves current_revision and checkpoint as they were; of a key
\* present it returns Ok, after which get(key) is NotFound, contain(key) is
\* false and every other key has the value it had; checkpoint is untouched.
RemoveContract ==
    [][\A i \in Stores, k \in StoreScope.keys :
          (StepIs(i, "remove") /\ call'.args = <<k>>) =>
              IF k \notin DOMAIN Store(i).current_revision
              THEN /\ call'.ret = Err(NotFound)
                   /\ StoreAfter(i) = Store(i)
              ELSE /\ call'.ret = Ok(Unit)
                   /\ get(StoreAfter(i), k).ret = Err(NotFound)
                   /\ contain(StoreAfter(i), k).ret = Ok(FALSE)
                   /\ DOMAIN StoreAfter(i).current_revision
                          = DOMAIN Store(i).current_revision \ {k}
                   /\ \A o \in DOMAIN Store(i).current_revision \ {k} :
                          get(StoreAfter(i), o).ret = Ok(Store(i).current_revision[o])
                   /\ StoreAfter(i).checkpoint = Store(i).checkpoint]_vars

\* A successful remove of a committed key that leaves another key behind.
RemoveContractWitness ==
    /\ IsCall("db", "remove")
    /\ call.ret = Ok(Unit)
    /\ Store("db").current_revision # SnapshotNew
    /\ call.args[1] \in DOMAIN Store("db").checkpoint

\* A remove of an absent key, failing on a store that holds another key.
RemoveNotFoundReached ==
    /\ IsCall("db", "remove")
    /\ call.ret = Err(NotFound)
    /\ Store("db").current_revision # SnapshotNew

\* C6 (empty store): on the store new returns, before any other call, get(k)
\* is NotFound and contain(k) is Ok(false) for every key, and checkpoint holds
\* no key.
EmptyStore ==
    IsCall("db", "new") =>
        /\ \A k \in StoreScope.keys :
               /\ get(Store("db"), k).ret = Err(NotFound)
               /\ contain(Store("db"), k).ret = Ok(FALSE)
        /\ DOMAIN Store("db").checkpoint = {}
        /\ DOMAIN Store("db").current_revision = {}

\* The store right after new, with nothing called on it yet.
EmptyStoreWitness ==
    /\ IsCall("db", "new")
    /\ DOMAIN handle = {"db"}
    /\ \E k \in StoreScope.keys : get(Store("db"), k).ret.tag = "Err"

\* C7 (contain): contain(key) never returns an error; it returns Ok(true)
\* exactly when get(key) succeeds and Ok(false) exactly when get(key) is
\* NotFound, and it changes neither current_revision nor checkpoint.
ContainContract ==
    [][\A i \in Stores, k \in StoreScope.keys :
          /\ contain(Store(i), k).ret.tag = "Ok"
          /\ (StepIs(i, "contain") /\ call'.args = <<k>>) =>
                 /\ call'.ret \in {Ok(TRUE), Ok(FALSE)}
                 /\ call'.ret = Ok(TRUE) <=> get(Store(i), k).ret.tag = "Ok"
                 /\ call'.ret = Ok(FALSE) <=> get(Store(i), k).ret = Err(NotFound)
                 /\ StoreAfter(i) = Store(i)
                 /\ ~call'.changed]_vars

\* contain answering false for a key the checkpoint still holds.
ContainContractWitness ==
    /\ IsCall("db", "contain")
    /\ call.ret = Ok(FALSE)
    /\ call.args[1] \in DOMAIN Store("db").checkpoint
    /\ Store("db").current_revision # SnapshotNew

\* C8 (commit_checkpoint): the call returns Ok; right after it checkpoint has
\* exactly the keys of current_revision, each with the same value, and
\* current_revision is what it was before the call.
CommitContract ==
    [][\A i \in Stores :
          StepIs(i, "commit_checkpoint") =>
              /\ call'.ret = Ok(Unit)
              /\ DOMAIN StoreAfter(i).checkpoint = DOMAIN StoreAfter(i).current_revision
              /\ \A k \in DOMAIN StoreAfter(i).current_revision :
                     StoreAfter(i).checkpoint[k] = StoreAfter(i).current_revision[k]
              /\ StoreAfter(i).current_revision = Store(i).current_revision]_vars

\* A commit_checkpoint that changed the checkpoint, to a non-empty one.
CommitContractWitness ==
    /\ IsCall("db", "commit_checkpoint")
    /\ call.changed
    /\ Len(commits["db"]) = 1
    /\ Store("db").checkpoint # SnapshotNew
    /\ Cardinality(DOMAIN Store("db").checkpoint) < NumKeys

\* C9 (instance isolation): the store open returns is a store of its own: a
\* call on one binding never changes current_revision or checkpoint of the
\* store the other binding names, and open leaves its source as it was.
InstanceIsolation ==
    [][/\ \A i \in Stores :
              (call'.inst # i /\ call'.op # "open") => StoreAfter(i) = Store(i)
       /\ call'.op = "open" => StoreAfter("db") = Store("db")]_vars

\* Both stores exist and differ, after a call that changed the opened one.
InstanceIsolationWitness ==
    /\ Stores = {"db", "opened"}
    /\ call.inst = "opened"
    /\ call.changed
    /\ Store("db").current_revision # Store("opened").current_revision
    /\ Store("db").checkpoint # Store("opened").checkpoint

\* C17 (revert before any commit): on a store made by new, a
\* revert_to_latest_checkpoint called before any commit_checkpoint, whatever
\* was inserted, overwritten or removed before it, returns Ok and leaves
\* current_revision empty: get fails with NotFound and contain returns
\* Ok(false) for every key.
RevertBeforeCommit ==
    IsCall("db", "revert_to_latest_checkpoint") /\ commits["db"] = <<>> =>
        /\ call.ret = Ok(Unit)
        /\ Store("db").current_revision = SnapshotNew
        /\ \A k \in StoreScope.keys :
               /\ get(Store("db"), k).ret = Err(NotFound)
               /\ contain(Store("db"), k).ret = Ok(FALSE)

\* The first revert of a store that has had no commit_checkpoint has emptied
\* a current_revision that held a key.
RevertBeforeCommitWitness ==
    /\ IsCall("db", "revert_to_latest_checkpoint")
    /\ commits["db"] = <<>>
    /\ call.changed
    /\ Store("db").current_revision = SnapshotNew

\* What binding i's store held at its latest commit_checkpoint, the one of the
\* store it was opened from if it has had none of its own since.
LastCommitted(i) ==
    IF commits[i] = <<>> THEN SnapshotNew ELSE commits[i][Len(commits[i])]

\* C18 (open copies both snapshots): right after open the new store's
\* current_revision equals the source's, uncommitted mutations included, and
\* its checkpoint equals the source's, so that a revert_to_latest_checkpoint
\* on the new store brings back what the source held at its last
\* commit_checkpoint before the open, which is neither an empty store nor the
\* source's current_revision unless those are what was committed.
OpenCopiesBothSnapshots ==
    [][/\ call'.op = "open" =>
              /\ StoreAfter("opened").current_revision = Store("db").current_revision
              /\ StoreAfter("opened").checkpoint = Store("db").checkpoint
              /\ revert_to_latest_checkpoint(StoreAfter("opened")).db.current_revision
                     = LastCommitted("db")
       /\ IsCall("db", "open") /\ StepIs("opened", "revert_to_latest_checkpoint") =>
              StoreAfter("opened").current_revision = LastCommitted("db")]_vars

\* open has copied a source whose checkpoint holds a key that its
\* current_revision has lost since the commit.
OpenCopiesBothSnapshotsWitness ==
    /\ IsCall("db", "open")
    /\ Store("opened") = Store("db")
    /\ Store("db").checkpoint # SnapshotNew
    /\ Store("db").current_revision # Store("db").checkpoint

\* A revert on the opened store, which has had no commit_checkpoint of its
\* own, has brought back the key the source committed and then removed.
OpenedRevertReached ==
    /\ IsCall("opened", "revert_to_latest_checkpoint")
    /\ call.changed
    /\ commits["opened"] = commits["db"]
    /\ Store("opened").current_revision = LastCommitted("db")
    /\ Store("opened").current_revision # SnapshotNew
    /\ Store("opened").current_revision # Store("db").current_revision

\* The call is commit_checkpoint or revert_to_latest_checkpoint on binding i.
Settles(c, i) ==
    c.inst = i /\ c.op \in {"commit_checkpoint", "revert_to_latest_checkpoint"}

\* C19 (commit and revert are idempotent): commit_checkpoint and
\* revert_to_latest_checkpoint each leave current_revision equal to
\* checkpoint; applied twice in a row each gives the store it gives applied
\* once; and on a store that one of them has just left, the other changes
\* neither snapshot.
CheckpointIdempotence ==
    [][\A i \in Stores :
          LET committed == commit_checkpoint(Store(i)).db
              reverted == revert_to_latest_checkpoint(Store(i)).db
          IN  /\ committed.current_revision = committed.checkpoint
              /\ reverted.current_revision = reverted.checkpoint
              /\ commit_checkpoint(committed).db = committed
              /\ revert_to_latest_checkpoint(reverted).db = reverted
              /\ revert_to_latest_checkpoint(committed).db = committed
              /\ commit_checkpoint(reverted).db = reverted
              /\ Settles(call', i) =>
                     StoreAfter(i).current_revision = StoreAfter(i).checkpoint
              /\ Settles(call, i) /\ Settles(call', i) => StoreAfter(i) = Store(i)]_vars

\* A revert has found a store whose two snapshots hold the same key, as a
\* commit_checkpoint or a revert leaves them, and changed nothing.
CheckpointIdempotenceWitness ==
    /\ IsCall("db", "revert_to_latest_checkpoint")
    /\ ~call.changed
    /\ Store("db").current_revision = Store("db").checkpoint
    /\ Store("db").checkpoint # SnapshotNew

\* A commit_checkpoint has found current_revision equal to a non-empty
\* checkpoint and changed nothing.
CommitTwiceReached ==
    /\ IsCall("db", "commit_checkpoint")
    /\ ~call.changed
    /\ Store("db").checkpoint # SnapshotNew

\* -------------------------------------------------- claims, the repository

\* The commits within d parent links of the commits of S, whichever parent is followed.
RECURSIVE Within(_, _)
Within(S, d) ==
    IF d = 0 THEN S ELSE Within(S \cup UNION {repo.parents[x] : x \in S}, d - 1)

Min(a, b) == IF a <= b THEN a ELSE b

\* All ancestors of commit c.
Ancestors(c) ==
    Within(repo.parents[c], Cardinality(DOMAIN repo.parents))

\* The commits a list_ancestors(c, max) walk covers: c, whose parent link it
\* starts from, and what lies within max links of it; none when max is 0.
RangeWalked(c, max) ==
    LET limit == IF max.tag = "Some" THEN max.val ELSE Cardinality(DOMAIN repo.parents)
    IN  IF limit = 0 THEN {} ELSE Within({c}, limit)

\* C10 (list_ancestors): when a commit in the range walked has more than one
\* parent the call fails with InvalidRepository, and nothing is returned;
\* otherwise it returns the chain of parents, the direct parent of commit
\* first and commit itself left out, each entry the only parent of the one
\* before, min(max, number of ancestors) entries long when max is given and
\* all the ancestors otherwise.
ListAncestorsContract ==
    IsCall("repo", "list_ancestors") =>
        LET c == call.args[1]
            max == call.args[2]
            n == Cardinality(Ancestors(c))
        IN  IF \E x \in RangeWalked(c, max) : Cardinality(repo.parents[x]) > 1
            THEN call.ret = Err(InvalidRepository)
            ELSE /\ call.ret.tag = "Ok"
                 /\ LET l == call.ret.val
                    IN  /\ Len(l) = IF max.tag = "Some" THEN Min(max.val, n) ELSE n
                        /\ \A j \in 1..Len(l) :
                               /\ l[j] # c
                               /\ repo.parents[IF j = 1 THEN c ELSE l[j - 1]] = {l[j]}

\* A walk cut short by max on a linear stretch, with a merge commit further up.
ListAncestorsContractWitness ==
    /\ IsCall("repo", "list_ancestors")
    /\ call.ret.tag = "Ok"
    /\ Len(call.ret.val) = 1
    /\ call.args[2] = Some(1)
    /\ \E x \in Ancestors(call.args[1]) : Cardinality(repo.parents[x]) > 1

\* A walk that fails on a merge commit two links up.
ListAncestorsFailureReached ==
    /\ IsCall("repo", "list_ancestors")
    /\ call.ret = Err(InvalidRepository)
    /\ Cardinality(repo.parents[call.args[1]]) = 1

\* The commits within d child links of the commits of S, whichever child is followed.
RECURSIVE WithinDown(_, _)
WithinDown(S, d) ==
    IF d = 0 THEN S
    ELSE WithinDown(S \cup UNION {children(repo, x) : x \in S}, d - 1)

\* The commits a list_descendants(c, max) walk covers: c, whose child link it
\* starts from, and what lies within max links of it; none when max is 0.
RangeWalkedDown(c, max) ==
    LET limit == IF max.tag = "Some" THEN max.val ELSE Cardinality(DOMAIN repo.parents)
    IN  IF limit = 0 THEN {} ELSE WithinDown({c}, limit)

\* C11 (list_descendants, list_children): list_descendants fails with
\* InvalidRepository when a commit in the range walked has more than one
\* child, and otherwise returns the chain of children, the direct child first,
\* each entry the only child of the one before, at most max entries;
\* list_children never fails and returns every direct child of commit,
\* each once, also where the history diverges.
DescendantsContract ==
    /\ IsCall("repo", "list_descendants") =>
           LET c == call.args[1]
               max == call.args[2]
           IN  IF \E x \in RangeWalkedDown(c, max) : Cardinality(children(repo, x)) > 1
               THEN call.ret = Err(InvalidRepository)
               ELSE /\ call.ret.tag = "Ok"
                    /\ LET l == call.ret.val
                       IN  /\ max.tag = "Some" => Len(l) <= max.val
                           /\ (max.tag = "None" \/ Len(l) < max.val) =>
                                  children(repo, IF l = <<>> THEN c ELSE l[Len(l)]) = {}
                           /\ \A j \in 1..Len(l) :
                                  children(repo, IF j = 1 THEN c ELSE l[j - 1]) = {l[j]}
    /\ IsCall("repo", "list_children") =>
           /\ call.ret.tag = "Ok"
           /\ {call.ret.val[j] : j \in 1..Len(call.ret.val)} = children(repo, call.args[1])
           /\ Len(call.ret.val) = Cardinality(children(repo, call.args[1]))

\* list_children answering with two children, where list_descendants fails.
DescendantsContractWitness ==
    /\ IsCall("repo", "list_children")
    /\ Len(call.ret.val) = 2
    /\ list_descendants(repo, call.args[1], None) = Err(InvalidRepository)

\* A list_descendants walk cut short by max, with diverging history further down.
DescendantsCappedReached ==
    /\ IsCall("repo", "list_descendants")
    /\ call.args[2] = Some(1)
    /\ call.ret.tag = "Ok"
    /\ Len(call.ret.val) = 1
    /\ \E x \in DOMAIN repo.parents : Cardinality(children(repo, x)) > 1

\* The operations that change the repository: branches and tags created,
\* moved or deleted, commits, checkouts, remote changes, garbage collection.
Mutators ==
    {"create_branch", "move_branch", "delete_branch", "create_tag", "remove_tag",
     "create_commit", "create_semantic_commit", "run_garbage_collection",
     "checkout_clean", "checkout", "checkout_detach", "add_remote",
     "remove_remote", "fetch_all"}

\* C12 (exclusive access): a mutating operation in flight on an instance is
\* the only call in flight on it: no second mutating operation and no
\* read-only query runs interleaved with it.
ExclusiveMutation ==
    \A t \in DOMAIN inflight :
        inflight[t] \in Mutators =>
            \A o \in DOMAIN inflight \ {t} : inflight[o] = Idle

\* What the receivers do give: every mutating operation but create_branch is
\* alone in flight, and a read-only query never changes the repository.
ExclusiveMutationButCreateBranch ==
    /\ \A t \in DOMAIN inflight :
           inflight[t] \in Mutators \ {"create_branch"} =>
               \A o \in DOMAIN inflight \ {t} : inflight[o] = Idle
    /\ MutSelf \subseteq Mutators

\* The last call on the repository was op and succeeded.
Succeeded(op) == IsCall("repo", op) /\ call.ret.tag = "Ok"

HeadDetachedReached ==
    /\ IsCall("repo", "get_head")
    /\ repo.head.mode = "detached"
    /\ call.ret = Ok(repo.head.commit)
    /\ \A b \in DOMAIN repo.branches : repo.branches[b] # repo.head.commit

\* The step is a call of create_commit or create_semantic_commit.
CommitStep == StepIs("repo", "create_commit") \/ StepIs("repo", "create_semantic_commit")

CommitDetachedReached ==
    /\ Succeeded("create_commit")
    /\ repo.head = Detached(call.ret.val)
    /\ \E o \in DOMAIN repo.branches : repo.branches[o] \in repo.parents[call.ret.val]

\* The elements of a Vec.
Elements(v) == {v[i] : i \in DOMAIN v}

\* Every branch is on one commit, which the repository knows.
BranchesOnKnownCommits ==
    /\ DOMAIN repo.branches \subseteq Branch(RepoBranches)
    /\ \A b \in DOMAIN repo.branches : repo.branches[b] \in known(repo)

\* C15 (branch pointers): in every reachable state each branch name stands
\* for one branch, which is on exactly one commit the repository knows;
\* create_branch(name, commit) fails and leaves the branches as they were when
\* name exists or commit is unknown; move_branch(name, commit) fails and
\* leaves the branches as they were when name or commit is unknown; right
\* after a successful create_branch or move_branch, locate_branch(name)
\* returns commit and get_branches(commit) contains name.
BranchPointers ==
    /\ []BranchesOnKnownCommits
    /\ [][LET name == call'.args[1]
              commit == call'.args[2]
          IN  /\ StepIs("repo", "create_branch")
                   /\ (name \in DOMAIN repo.branches \/ commit \notin known(repo))
                 => call'.ret.tag = "Err" /\ repo'.branches = repo.branches
              /\ StepIs("repo", "move_branch")
                   /\ (name \notin DOMAIN repo.branches \/ commit \notin known(repo))
                 => call'.ret.tag = "Err" /\ repo'.branches = repo.branches
              /\ (StepIs("repo", "create_branch") \/ StepIs("repo", "move_branch"))
                   /\ call'.ret.tag = "Ok"
                 => /\ locate_branch(repo', name).ret = Ok(commit)
                    /\ get_branches(repo', commit).ret.tag = "Ok"
                    /\ name \in Elements(get_branches(repo', commit).ret.val)]_vars

\* create_branch has failed on the name of a branch that is on another commit
\* than the one asked for, and the branch is still where it was.
BranchPointersWitness ==
    /\ IsCall("repo", "create_branch")
    /\ call.ret.tag = "Err"
    /\ call.args[1] \in DOMAIN repo.branches
    /\ call.args[2] \in known(repo)
    /\ repo.branches[call.args[1]] # call.args[2]

\* move_branch has moved a branch that shared its commit with another one.
BranchMovedReached ==
    /\ Succeeded("move_branch")
    /\ repo.branches[call.args[1]] = call.args[2]
    /\ \E o \in DOMAIN repo.branches : repo.branches[o] # call.args[2]

\* move_branch has failed on a commit the repository does not know.
BranchMoveUnknownReached ==
    /\ IsCall("repo", "move_branch")
    /\ call.ret.tag = "Err"
    /\ call.args[1] \in DOMAIN repo.branches
    /\ call.args[2] \notin known(repo)

SemanticUnchangedReached ==
    /\ Succeeded("create_semantic_commit")
    /\ call.args[1].reserved_state = None
    /\ Len(call.args[1].body) = 1
    /\ read_semantic_commit(repo, call.ret.val).ret = Ok(call.args[1])

\* A semantic commit has been given the reserved state its parent already
\* has: it did not change the reserved state, and reads back with None.
SemanticSameStateReached ==
    /\ Succeeded("create_semantic_commit")
    /\ call.args[1].reserved_state.tag = "Some"
    /\ \A q \in repo.parents[call.ret.val] :
           repo.reserved[q] = call.args[1].reserved_state.val
    /\ read_semantic_commit(repo, call.ret.val).ret.val.reserved_state = None

====
